---- MODULE Spec2Model ----
(***************************************************************************)
(* nzm-agent: the pane registry (state.rs), the request/response model     *)
(* (ipc.rs), the command dispatcher (commands.rs) and the Zellij plugin    *)
(* glue (plugin.rs).                                                       *)
(*                                                                         *)
(* Rust indices are 0-based; TLA+ sequences are 1-based, so a position p   *)
(* of the model is the index p-1 of the code.  Option<T> is modelled as a  *)
(* sequence of length at most one: None == <<>>, Some(v) == <<v>>.         *)
(***************************************************************************)
EXTENDS Integers, Sequences, FiniteSets, TLC

\* ------------------------------------------------------------------------
\* Bounds
\* ------------------------------------------------------------------------
\* number of tab positions a manifest may use (tab indices 0..MaxTabs-1)
MaxTabs == 2
\* number of raw pane entries in one manifest, over all its tabs
MaxPanes == 3

None == <<>>
Some(v) == <<v>>

\* ------------------------------------------------------------------------
\* Topology snapshots (zellij_tile PaneInfo / PaneManifest)
\* ------------------------------------------------------------------------
\* The fields of PaneInfo that the code reads.
PaneInfo(id, title, is_plugin, is_focused, is_floating) ==
    [id |-> id, title |-> title, is_plugin |-> is_plugin,
     is_focused |-> is_focused, is_floating |-> is_floating]

\* The raw entries snapshots are built from: two terminal panes that share
\* an id, terminal panes that share a title, a plugin pane that shares its
\* id and title with a terminal pane, and a plugin pane whose id no terminal
\* pane carries.
RawPanes ==
    { PaneInfo(1, "a",  FALSE, TRUE,  FALSE),
      PaneInfo(2, "ab", FALSE, FALSE, TRUE),
      PaneInfo(1, "ab", FALSE, FALSE, FALSE),
      PaneInfo(1, "a",  TRUE,  FALSE, FALSE),
      PaneInfo(3, "p",  TRUE,  TRUE,  FALSE) }

TabIndices == 0 .. (MaxTabs - 1)

\* the tab positions of a session with n tabs are 0 .. n-1
TabSets == { 0 .. (n - 1) : n \in 0 .. MaxTabs }

RECURSIVE SumOver(_, _)
SumOver(f, S) ==
    IF S = {} THEN 0
    ELSE LET t == CHOOSE x \in S : TRUE IN f[t] + SumOver(f, S \ {t})

\* how many entries each tab of a manifest holds; a tab has at least one
\* pane, a manifest may have no tab
Shapes(T) == { sh \in [T -> 1 .. MaxPanes] : SumOver(sh, T) =< MaxPanes }

\* the entries of the tabs below t, laid end to end, precede those of t
Offset(sh, t) == SumOver(sh, { u \in DOMAIN sh : u < t })

\* PaneManifest.panes: tab position -> the tab's entries in delivery order
Manifests ==
    UNION { UNION { { [t \in T |-> SubSeq(flat, Offset(sh, t) + 1, Offset(sh, t) + sh[t])]
                      : flat \in [1 .. SumOver(sh, T) -> RawPanes] }
                    : sh \in Shapes(T) }
            : T \in TabSets }

\* all the orders in which the keys of a map can be visited
RECURSIVE IterationOrders(_)
IterationOrders(S) ==
    IF S = {} THEN { <<>> }
    ELSE UNION { { <<t>> \o rest : rest \in IterationOrders(S \ {t}) } : t \in S }

\* the entries of a snapshot, tab after tab in the given order of tabs
RECURSIVE Entries(_, _)
Entries(S, order) ==
    IF order = <<>> THEN <<>>
    ELSE S[Head(order)] \o Entries(S, Tail(order))

\* the entries of a sequence that are not plugin-hosted, order kept
Terminals(seq) == SelectSeq(seq, LAMBDA p : ~p.is_plugin)

\* ------------------------------------------------------------------------
\* state.rs: State
\* ------------------------------------------------------------------------
\* State::default(): no panes, empty id map
DefaultState == [panes |-> <<>>, pane_by_id |-> <<>>]

\* an insert that keeps the value a key already has
MapInsert_keepFirst(map, key, value) ==
    [k \in (DOMAIN map) \cup {key} |-> IF k \in DOMAIN map THEN map[k] ELSE value]

\* HashMap::insert: the new value replaces the one the key had
MapInsert(map, key, value) ==
    [k \in (DOMAIN map) \cup {key} |-> IF k = key THEN value ELSE map[k]]

\* an update that merges into what is there
ClearState_keep(st) == st

\* update_panes, lines 14-15
ClearState(st) == [panes |-> <<>>, pane_by_id |-> <<>>]

\* a scan that does not test is_plugin
TrackPane_withPlugins(st, pane) ==
    LET idx == Len(st.panes) + 1
    IN [panes |-> Append(st.panes, pane),
        pane_by_id |-> MapInsert(st.pane_by_id, pane.id, idx)]

\* a scan that takes the length after the push for the position
TrackPane_lenAfterPush(st, pane) ==
    IF ~pane.is_plugin
    THEN LET idx == Len(Append(st.panes, pane)) + 1
         IN [panes |-> Append(st.panes, pane),
             pane_by_id |-> MapInsert(st.pane_by_id, pane.id, idx)]
    ELSE st

\* a scan that skips an entry whose id is already in the map
TrackPane_dedupe(st, pane) ==
    IF ~pane.is_plugin /\ pane.id \notin DOMAIN st.pane_by_id
    THEN LET idx == Len(st.panes) + 1
         IN [panes |-> Append(st.panes, pane),
             pane_by_id |-> MapInsert(st.pane_by_id, pane.id, idx)]
    ELSE st

\* update_panes, lines 20-24: one entry of a tab
TrackPane(st, pane) ==
    IF ~pane.is_plugin
    THEN LET idx == Len(st.panes) + 1
         IN [panes |-> Append(st.panes, pane),
             pane_by_id |-> MapInsert(st.pane_by_id, pane.id, idx)]
    ELSE st

\* update_panes, line 18: the entries of one tab, in the order given
RECURSIVE ScanTab(_, _)
ScanTab(st, tab_panes) ==
    IF tab_panes = <<>> THEN st
    ELSE ScanTab(TrackPane(st, Head(tab_panes)), Tail(tab_panes))

\* a scan that stops after the first tab
ScanTabs_firstTabOnly(st, manifest, order) ==
    IF order = <<>> THEN st
    ELSE ScanTab(st, manifest[Head(order)])

\* update_panes, line 17: the tabs, in the order the map's iterator yields
RECURSIVE ScanTabs(_, _, _)
ScanTabs(st, manifest, order) ==
    IF order = <<>> THEN st
    ELSE ScanTabs(ScanTab(st, manifest[Head(order)]), manifest, Tail(order))

\* State::update_panes; order is the iteration order of manifest.panes
update_panes(st, manifest, order) ==
    ScanTabs(ClearState(st), manifest, order)

\* State::panes
panes(st) == st.panes

\* State::get_pane
get_pane(st, id) ==
    IF id \in DOMAIN st.pane_by_id
    THEN Some(st.panes[st.pane_by_id[id]])
    ELSE None

\* str::starts_with
starts_with(s, prefix) ==
    /\ Len(prefix) =< Len(s)
    /\ SubSeq(s, 1, Len(prefix)) = prefix

\* a search that keeps the last match
get_pane_by_title_last(st, title) ==
    LET hits == { i \in 1 .. Len(st.panes) : st.panes[i].title = title }
    IN IF hits = {} THEN None
       ELSE Some(st.panes[CHOOSE i \in hits : \A j \in hits : j =< i])

\* State::get_pane_by_title: Iterator::find, the first match
get_pane_by_title(st, title) ==
    LET hits == { i \in 1 .. Len(st.panes) : st.panes[i].title = title }
    IN IF hits = {} THEN None
       ELSE Some(st.panes[CHOOSE i \in hits : \A j \in hits : i =< j])

\* Iterator::filter(..).collect(): the matching elements, order kept
RECURSIVE FilterByPrefix(_, _)
FilterByPrefix(seq, prefix) ==
    IF seq = <<>> THEN <<>>
    ELSE IF starts_with(Head(seq).title, prefix)
         THEN <<Head(seq)>> \o FilterByPrefix(Tail(seq), prefix)
         ELSE FilterByPrefix(Tail(seq), prefix)

\* State::get_panes_by_prefix
get_panes_by_prefix(st, prefix) == FilterByPrefix(st.panes, prefix)

\* ------------------------------------------------------------------------
\* serde_json values
\* ------------------------------------------------------------------------
\* A JSON value that a field of params can hold.  An integer is written in
\* base 2^32: its value is hi * 2^32 + lo, negated when neg.  "absent" marks a
\* key the object does not have.
JAbsent == [t |-> "absent", neg |-> FALSE, hi |-> 0, lo |-> 0, s |-> "", b |-> FALSE]
JNull == [t |-> "null", neg |-> FALSE, hi |-> 0, lo |-> 0, s |-> "", b |-> FALSE]
JNum(neg, hi, lo) == [t |-> "num", neg |-> neg, hi |-> hi, lo |-> lo, s |-> "", b |-> FALSE]
JStr(s) == [t |-> "str", neg |-> FALSE, hi |-> 0, lo |-> 0, s |-> s, b |-> FALSE]
JBool(b) == [t |-> "bool", neg |-> FALSE, hi |-> 0, lo |-> 0, s |-> "", b |-> b]

\* Request.params: null, an object or an array
ParamsNull ==
    [kind |-> "null", pane_id |-> JAbsent, text |-> JAbsent, enter |-> JAbsent,
     wrong_field |-> JAbsent, elems |-> <<>>]
ParamsObject(pane_id, text, enter, wrong_field) ==
    [kind |-> "object", pane_id |-> pane_id, text |-> text, enter |-> enter,
     wrong_field |-> wrong_field, elems |-> <<>>]
ParamsArray(elems) ==
    [kind |-> "array", pane_id |-> JAbsent, text |-> JAbsent, enter |-> JAbsent,
     wrong_field |-> JAbsent, elems |-> elems]

\* serde's rendering of the value it did not expect
Unexpected(v) ==
    CASE v.t = "null" -> "null"
      [] v.t = "bool" -> "boolean '" \o (IF v.b THEN "true" ELSE "false") \o "'"
      [] v.t = "str" -> "string \"" \o v.s \o "\""
      [] v.t = "num" ->
            "integer '" \o (IF v.neg THEN "-" ELSE "")
            \o (IF v.hi = 0 THEN ToString(v.lo)
                ELSE ToString(v.hi) \o "*2^32+" \o ToString(v.lo)) \o "'"

Ok(v) == [ok |-> TRUE, value |-> v, err |-> ""]
Err(e) == [ok |-> FALSE, value |-> 0, err |-> e]

\* a conversion that keeps the low 32 bits of an integer that is too large
DecodeU32_wrapping(v) ==
    IF v.t # "num" THEN Err("invalid type: " \o Unexpected(v) \o ", expected u32")
    ELSE IF v.neg
         THEN Err("invalid value: " \o Unexpected(v) \o ", expected u32")
         ELSE Ok(v.lo)

\* u32: a non-negative integer below 2^32
DecodeU32(v) ==
    IF v.t # "num" THEN Err("invalid type: " \o Unexpected(v) \o ", expected u32")
    ELSE IF v.neg \/ v.hi # 0
         THEN Err("invalid value: " \o Unexpected(v) \o ", expected u32")
         ELSE Ok(v.lo)

\* String
DecodeString(v) ==
    IF v.t = "str" THEN Ok(v.s)
    ELSE Err("invalid type: " \o Unexpected(v) \o ", expected a string")

\* bool
DecodeBool(v) ==
    IF v.t = "bool" THEN Ok(v.b)
    ELSE Err("invalid type: " \o Unexpected(v) \o ", expected a boolean")

\* ------------------------------------------------------------------------
\* ipc.rs
\* ------------------------------------------------------------------------
Request(id, action, params) == [id |-> id, action |-> action, params |-> params]

Response(id, success, data, error) ==
    [id |-> id, success |-> success, data |-> data, error |-> error]

\* serde_json::from_value::<PaneIdParam>: unknown keys of an object are
\* ignored; an array gives the fields by position
DecodePaneIdParam(params) ==
    CASE params.kind = "object" ->
            IF params.pane_id.t = "absent" THEN Err("missing field 'pane_id'")
            ELSE LET id == DecodeU32(params.pane_id)
                 IN IF id.ok THEN Ok([pane_id |-> id.value]) ELSE Err(id.err)
      [] params.kind = "array" ->
            IF Len(params.elems) = 0
            THEN Err("invalid length 0, expected struct PaneIdParam with 1 element")
            ELSE LET id == DecodeU32(params.elems[1])
                 IN IF ~id.ok THEN Err(id.err)
                    ELSE IF Len(params.elems) > 1
                         THEN Err("invalid length " \o ToString(Len(params.elems))
                                  \o ", expected fewer elements in array")
                         ELSE Ok([pane_id |-> id.value])
      [] OTHER -> Err("invalid type: null, expected struct PaneIdParam")

\* serde_json::from_value::<SendKeysParams>: the keys of an object are
\* visited in sorted order (enter, pane_id, text), then the missing fields
\* are reported in declaration order; enter defaults to false
DecodeSendKeysParams(params) ==
    CASE params.kind = "object" ->
            LET enter == IF params.enter.t = "absent" THEN Ok(FALSE)
                         ELSE DecodeBool(params.enter)
                id == DecodeU32(params.pane_id)
                text == DecodeString(params.text)
            IN IF ~enter.ok THEN Err(enter.err)
               ELSE IF params.pane_id.t # "absent" /\ ~id.ok THEN Err(id.err)
               ELSE IF params.text.t # "absent" /\ ~text.ok THEN Err(text.err)
               ELSE IF params.pane_id.t = "absent" THEN Err("missing field 'pane_id'")
               ELSE IF params.text.t = "absent" THEN Err("missing field 'text'")
               ELSE Ok([pane_id |-> id.value, text |-> text.value, enter |-> enter.value])
      [] params.kind = "array" ->
            LET n == Len(params.elems)
                id == DecodeU32(params.elems[1])
                text == DecodeString(params.elems[2])
                enter == IF n < 3 THEN Ok(FALSE) ELSE DecodeBool(params.elems[3])
            IN IF n = 0
               THEN Err("invalid length 0, expected struct SendKeysParams with 3 elements")
               ELSE IF ~id.ok THEN Err(id.err)
               ELSE IF n = 1
               THEN Err("invalid length 1, expected struct SendKeysParams with 3 elements")
               ELSE IF ~text.ok THEN Err(text.err)
               ELSE IF ~enter.ok THEN Err(enter.err)
               ELSE IF n > 3
               THEN Err("invalid length " \o ToString(n) \o ", expected fewer elements in array")
               ELSE Ok([pane_id |-> id.value, text |-> text.value, enter |-> enter.value])
      [] OTHER -> Err("invalid type: null, expected struct SendKeysParams")

\* ------------------------------------------------------------------------
\* commands.rs
\* ------------------------------------------------------------------------
\* a DTO with the two flags exchanged
PaneDto_swapped(p) ==
    [id |-> p.id, title |-> p.title, is_focused |-> p.is_floating,
     is_floating |-> p.is_focused]

PaneDto(p) ==
    [id |-> p.id, title |-> p.title, is_focused |-> p.is_focused,
     is_floating |-> p.is_floating]

\* a response that does not take the id of its request
ResponseId_empty(req) == ""

\* the id a response carries
ResponseId(req) == req.id

\* format!("pane not found: {}", pane_id)
PaneNotFound(pane_id) == "pane not found: " \o ToString(pane_id)

\* format!("invalid params: {}", e)
InvalidParams(e) == "invalid params: " \o e

\* format!("unknown action: {}", action)
UnknownAction(action) == "unknown action: " \o action

handle_list_panes(req, st) ==
    LET ps == [i \in 1 .. Len(panes(st)) |-> PaneDto(panes(st)[i])]
    IN Response(ResponseId(req), TRUE, Some([panes |-> ps]), None)

\* a lookup that takes pane_id for an index into panes
handle_get_pane_info_byIndex(req, st) ==
    LET params == DecodePaneIdParam(req.params)
    IN IF params.ok
       THEN LET found == IF params.value.pane_id + 1 =< Len(st.panes)
                         THEN Some(st.panes[params.value.pane_id + 1])
                         ELSE None
            IN IF found # None
               THEN Response(ResponseId(req), TRUE,
                             Some([pane |-> PaneDto(found[1])]), None)
               ELSE Response(ResponseId(req), FALSE, None,
                             Some(PaneNotFound(params.value.pane_id)))
       ELSE Response(ResponseId(req), FALSE, None, Some(InvalidParams(params.err)))

handle_get_pane_info(req, st) ==
    LET params == DecodePaneIdParam(req.params)
    IN IF params.ok
       THEN LET found == get_pane(st, params.value.pane_id)
            IN IF found # None
               THEN Response(ResponseId(req), TRUE,
                             Some([pane |-> PaneDto(found[1])]), None)
               ELSE Response(ResponseId(req), FALSE, None,
                             Some(PaneNotFound(params.value.pane_id)))
       ELSE Response(ResponseId(req), FALSE, None, Some(InvalidParams(params.err)))

\* a descriptor that drops enter
SendKeysData_noEnter(p) ==
    [action |-> "send_keys", pane_id |-> p.pane_id, text |-> p.text, enter |-> FALSE]

\* the descriptor handle_send_keys_validate returns as data
SendKeysData(p) ==
    [action |-> "send_keys", pane_id |-> p.pane_id, text |-> p.text, enter |-> p.enter]

\* the descriptor handle_send_interrupt_validate returns as data
SendInterruptData(p) ==
    [action |-> "send_interrupt", pane_id |-> p.pane_id]

\* a validator that does not look the pane up
PaneExists_always(st, pane_id) == TRUE

\* the test both validators make before they build a descriptor
PaneExists(st, pane_id) == get_pane(st, pane_id) # None

\* a validator that looks the pane up before it decodes text and enter
handle_send_keys_validate_lookupFirst(req, st) ==
    LET target == DecodePaneIdParam(req.params)
        params == DecodeSendKeysParams(req.params)
    IN IF target.ok /\ ~PaneExists(st, target.value.pane_id)
       THEN Response(ResponseId(req), FALSE, None,
                     Some(PaneNotFound(target.value.pane_id)))
       ELSE IF params.ok
            THEN Response(ResponseId(req), TRUE, Some(SendKeysData(params.value)), None)
            ELSE Response(ResponseId(req), FALSE, None, Some(InvalidParams(params.err)))

handle_send_keys_validate(req, st) ==
    LET params == DecodeSendKeysParams(req.params)
    IN IF params.ok
       THEN IF ~PaneExists(st, params.value.pane_id)
            THEN Response(ResponseId(req), FALSE, None,
                          Some(PaneNotFound(params.value.pane_id)))
            ELSE Response(ResponseId(req), TRUE, Some(SendKeysData(params.value)), None)
       ELSE Response(ResponseId(req), FALSE, None, Some(InvalidParams(params.err)))

\* a validator whose pane-not-found response still carries the descriptor
handle_send_interrupt_validate_partial(req, st) ==
    LET params == DecodePaneIdParam(req.params)
    IN IF params.ok
       THEN IF ~PaneExists(st, params.value.pane_id)
            THEN Response(ResponseId(req), FALSE, Some(SendInterruptData(params.value)),
                          Some(PaneNotFound(params.value.pane_id)))
            ELSE Response(ResponseId(req), TRUE, Some(SendInterruptData(params.value)), None)
       ELSE Response(ResponseId(req), FALSE, None, Some(InvalidParams(params.err)))

handle_send_interrupt_validate(req, st) ==
    LET params == DecodePaneIdParam(req.params)
    IN IF params.ok
       THEN IF ~PaneExists(st, params.value.pane_id)
            THEN Response(ResponseId(req), FALSE, None,
                          Some(PaneNotFound(params.value.pane_id)))
            ELSE Response(ResponseId(req), TRUE, Some(SendInterruptData(params.value)), None)
       ELSE Response(ResponseId(req), FALSE, None, Some(InvalidParams(params.err)))

\* a match that ignores the case of the action
Route_caseless(action) ==
    CASE action \in { "list_panes" } -> "list_panes"
      [] action \in { "get_pane_info" } -> "get_pane_info"
      [] action \in { "send_keys", "Send_Keys" } -> "send_keys"
      [] action \in { "send_interrupt" } -> "send_interrupt"
      [] OTHER -> "_"

\* the arm of dispatch_command an action string selects
Route(action) ==
    CASE action = "list_panes" -> "list_panes"
      [] action = "get_pane_info" -> "get_pane_info"
      [] action = "send_keys" -> "send_keys"
      [] action = "send_interrupt" -> "send_interrupt"
      [] OTHER -> "_"

dispatch_command(req, st) ==
    CASE Route(req.action) = "list_panes" -> handle_list_panes(req, st)
      [] Route(req.action) = "get_pane_info" -> handle_get_pane_info(req, st)
      [] Route(req.action) = "send_keys" -> handle_send_keys_validate(req, st)
      [] Route(req.action) = "send_interrupt" -> handle_send_interrupt_validate(req, st)
      [] OTHER -> Response(ResponseId(req), FALSE, None, Some(UnknownAction(req.action)))

\* ------------------------------------------------------------------------
\* Inputs: requests
\* ------------------------------------------------------------------------
\* pane_id: absent, 1, 2, 3, -1, 2^32 + 1, "1"
PaneIdValues ==
    { JAbsent, JNum(FALSE, 0, 1), JNum(FALSE, 0, 2), JNum(FALSE, 0, 3),
      JNum(TRUE, 0, 1), JNum(FALSE, 1, 1), JStr("1") }
TextValues == { JAbsent, JStr("hello"), JNum(FALSE, 0, 5) }
EnterValues == { JAbsent, JBool(TRUE), JBool(FALSE), JStr("yes") }

ParamsValues ==
    { ParamsNull }
    \cup { ParamsObject(p, t, e, JAbsent) :
             p \in PaneIdValues, t \in TextValues, e \in EnterValues }
    \cup { ParamsObject(p, JAbsent, JAbsent, JNum(FALSE, 0, 123)) : p \in PaneIdValues }
    \cup { ParamsArray(<<>>),
           ParamsArray(<<JNum(FALSE, 0, 1)>>),
           ParamsArray(<<JStr("1")>>),
           ParamsArray(<<JNum(FALSE, 0, 1), JStr("hello")>>),
           ParamsArray(<<JNum(FALSE, 0, 2), JStr("hello"), JBool(TRUE)>>),
           ParamsArray(<<JNum(FALSE, 0, 1), JStr("hello"), JBool(TRUE), JNull>>) }

KnownActions == { "list_panes", "get_pane_info", "send_keys", "send_interrupt" }
Actions == KnownActions \cup { "bogus", "Send_Keys" }
RequestIds == { "123", "" }

Requests == { Request(i, a, p) : i \in RequestIds, a \in Actions, p \in ParamsValues }

\* the titles and prefixes the lookups are asked for; "b" and "zz" occur
\* nowhere
LookupTitles == { "", "a", "ab", "p", "b", "zz" }

\* ------------------------------------------------------------------------
\* plugin.rs: NzmAgent
\* ------------------------------------------------------------------------
\* PipeSource
PipeSources ==
    { [kind |-> "Cli", id |-> "pipe-1"],
      [kind |-> "Plugin", id |-> "7"],
      [kind |-> "Keybind", id |-> ""] }

\* The text of a payload: not JSON at all, or a JSON object with the keys
\* id, action and params (each may be missing).
Garbage == [kind |-> "garbage", id |-> JAbsent, action |-> JAbsent, params |-> None]
Document(id, action, params) ==
    [kind |-> "object", id |-> id, action |-> action, params |-> params]

\* a request as the CLI writes it
Encode(req) == Document(JStr(req.id), JStr(req.action), Some(req.params))

Payloads ==
    { Garbage,
      Document(JStr("123"), JAbsent, None),
      Document(JAbsent, JStr("list_panes"), None),
      Document(JNum(FALSE, 0, 7), JStr("list_panes"), None),
      Document(JStr("123"), JNum(FALSE, 0, 7), Some(ParamsNull)),
      Document(JStr("123"), JStr("list_panes"), None),
      Document(JStr("123"), JStr("send_interrupt"), None) }
    \cup { Encode(req) : req \in Requests }

\* PipeMessage: the source and the optional payload
PipeMessages ==
    { [source |-> s, payload |-> None] : s \in PipeSources }
    \cup { [source |-> s, payload |-> Some(d)] : s \in PipeSources, d \in Payloads }

\* a parse that takes "" for a missing action
ParseRequest_defaultAction(doc) ==
    IF doc.kind = "garbage" THEN Err("expected value at line 1 column 1")
    ELSE IF doc.id.t \notin { "absent", "str" }
    THEN Err("invalid type: " \o Unexpected(doc.id) \o ", expected a string")
    ELSE IF doc.action.t \notin { "absent", "str" }
    THEN Err("invalid type: " \o Unexpected(doc.action) \o ", expected a string")
    ELSE IF doc.id.t = "absent" THEN Err("missing field 'id'")
    ELSE Ok(Request(doc.id.s, IF doc.action.t = "absent" THEN "" ELSE doc.action.s,
                    IF doc.params = None THEN ParamsNull ELSE doc.params[1]))

\* serde_json::from_str::<Request>: id and action are required strings,
\* params defaults to null
ParseRequest(doc) ==
    IF doc.kind = "garbage" THEN Err("expected value at line 1 column 1")
    ELSE IF doc.id.t \notin { "absent", "str" }
    THEN Err("invalid type: " \o Unexpected(doc.id) \o ", expected a string")
    ELSE IF doc.action.t \notin { "absent", "str" }
    THEN Err("invalid type: " \o Unexpected(doc.action) \o ", expected a string")
    ELSE IF doc.id.t = "absent" THEN Err("missing field 'id'")
    ELSE IF doc.action.t = "absent" THEN Err("missing field 'action'")
    ELSE Ok(Request(doc.id.s, doc.action.s,
                    IF doc.params = None THEN ParamsNull ELSE doc.params[1]))

\* serde_json::to_string(&response): a None field is skipped
Serialize(r) ==
    CASE r.data # None /\ r.error # None ->
            [id |-> r.id, success |-> r.success, data |-> r.data[1], error |-> r.error[1]]
      [] r.data # None /\ r.error = None ->
            [id |-> r.id, success |-> r.success, data |-> r.data[1]]
      [] r.data = None /\ r.error # None ->
            [id |-> r.id, success |-> r.success, error |-> r.error[1]]
      [] OTHER -> [id |-> r.id, success |-> r.success]

\* (as u32) of a u64: the low 32 bits
AsU32(n) == (n % 65536) + 65536 * ((n \div 65536) % 65536)

\* write_chars_to_pane_id(chars, PaneId::Terminal(pane_id))
Write(chars, pane_id) == [chars |-> chars, pane |-> pane_id]

\* the string "\x03"
CtrlC == "\\x03"

\* an execution that sends the newline before the text
Execute_newlineFirst(response) ==
    IF response.success /\ response.data # None
       /\ "action" \in DOMAIN response.data[1]
    THEN LET data == response.data[1]
         IN CASE data.action = "send_keys" ->
                    IF "pane_id" \in DOMAIN data /\ "text" \in DOMAIN data
                    THEN (IF "enter" \in DOMAIN data /\ data.enter
                          THEN <<Write("\n", AsU32(data.pane_id))>>
                          ELSE <<>>)
                         \o <<Write(data.text, AsU32(data.pane_id))>>
                    ELSE <<>>
              [] data.action = "send_interrupt" ->
                    IF "pane_id" \in DOMAIN data
                    THEN <<Write(CtrlC, AsU32(data.pane_id))>>
                    ELSE <<>>
              [] OTHER -> <<>>
    ELSE <<>>

\* pipe, lines 62-88: the writes a response leads to
Execute(response) ==
    IF response.success /\ response.data # None
       /\ "action" \in DOMAIN response.data[1]
    THEN LET data == response.data[1]
         IN CASE data.action = "send_keys" ->
                    IF "pane_id" \in DOMAIN data /\ "text" \in DOMAIN data
                    THEN <<Write(data.text, AsU32(data.pane_id))>>
                         \o (IF "enter" \in DOMAIN data /\ data.enter
                             THEN <<Write("\n", AsU32(data.pane_id))>>
                             ELSE <<>>)
                    ELSE <<>>
              [] data.action = "send_interrupt" ->
                    IF "pane_id" \in DOMAIN data
                    THEN <<Write(CtrlC, AsU32(data.pane_id))>>
                    ELSE <<>>
              [] OTHER -> <<>>
    ELSE <<>>

\* pipe, lines 90-95 and 104-108: the response goes out only on a CLI pipe
Reply(source, response) ==
    IF source.kind = "Cli"
    THEN <<[pipe |-> source.id, json |-> Serialize(response)]>>
    ELSE <<>>

\* the calls in the other order: the response goes out, then the writes
HostCalls_replyFirst(source, response) ==
    [k \in 1 .. Len(Reply(source, response)) |->
        [call |-> "cli_pipe_output", args |-> Reply(source, response)[k]]]
    \o [k \in 1 .. Len(Execute(response)) |->
          [call |-> "write_chars_to_pane_id", args |-> Execute(response)[k]]]

\* pipe, lines 62-95 and 104-108: its calls to the host in the order it
\* makes them, the writes and then the response
HostCalls(source, response) ==
    [k \in 1 .. Len(Execute(response)) |->
        [call |-> "write_chars_to_pane_id", args |-> Execute(response)[k]]]
    \o [k \in 1 .. Len(Reply(source, response)) |->
          [call |-> "cli_pipe_output", args |-> Reply(source, response)[k]]]

\* pipe, lines 98-103
ParseFailure(e) ==
    Response("", FALSE, None, Some("Failed to parse request: " \o e))

VARIABLES
    state,          \* NzmAgent.state (a State)
    initialized,    \* NzmAgent.initialized
    pc,             \* "host" between callbacks, else the callback that ran
    before,         \* update: the records the State listed when the event came
    manifest,       \* update: the PaneManifest of the event (an Option)
    scan,           \* update: the order manifest.panes was iterated in
    previous,       \* update: the State an equal manifest left just before
    latest,         \* the non-plugin entries of the last manifest delivered
    query,          \* get_pane_by_title, get_panes_by_prefix: the argument
    found,          \* get_pane_by_title, get_panes_by_prefix: the result
    request,        \* the Request handed to dispatch_command (an Option)
    response,       \* the Response of the call (an Option)
    pipe_message,   \* pipe: the PipeMessage (an Option)
    writes,         \* pipe: the write_chars_to_pane_id calls, in order
    output,         \* pipe: the cli_pipe_output calls, in order
    effects         \* pipe: all its calls to the host, in order

vars == <<state, initialized, pc, before, manifest, scan, previous, latest, query,
          found, request, response, pipe_message, writes, output,
          effects>>

\* the arguments, locals and effects of a callback that has not run
NoCall ==
    /\ before' = {}
    /\ manifest' = None
    /\ scan' = <<>>
    /\ previous' = None
    /\ query' = None
    /\ found' = <<>>
    /\ request' = None
    /\ response' = None
    /\ pipe_message' = None
    /\ writes' = <<>>
    /\ output' = <<>>
    /\ effects' = <<>>

\* NzmAgent::default()
Init ==
    /\ state = DefaultState
    /\ initialized = FALSE
    /\ pc = "host"
    /\ before = {}
    /\ manifest = None
    /\ scan = <<>>
    /\ previous = None
    /\ latest = <<>>
    /\ query = None
    /\ found = <<>>
    /\ request = None
    /\ response = None
    /\ pipe_message = None
    /\ writes = <<>>
    /\ output = <<>>
    /\ effects = <<>>

\* NzmAgent::load: the host calls it first, once
Load ==
    /\ pc = "host"
    /\ ~initialized
    /\ initialized' = TRUE
    /\ pc' = "load"
    /\ NoCall
    /\ UNCHANGED <<state, latest>>

\* NzmAgent::update(Event::PaneUpdate(manifest))
UpdatePaneUpdate ==
    /\ pc = "host"
    /\ initialized
    /\ \E m \in Manifests : \E order \in IterationOrders(DOMAIN m) :
          /\ state' = update_panes(state, m, order)
          /\ manifest' = Some(m)
          /\ scan' = order
          /\ latest' = Terminals(Entries(m, order))
    /\ before' = { state.panes[k] : k \in 1 .. Len(state.panes) }
    /\ previous' = None
    /\ query' = None
    /\ found' = <<>>
    /\ pc' = "update"
    /\ request' = None
    /\ response' = None
    /\ pipe_message' = None
    /\ writes' = <<>>
    /\ output' = <<>>
    /\ effects' = <<>>
    /\ UNCHANGED initialized

\* NzmAgent::update(Event::PaneUpdate(manifest)) once more, the next event
\* carrying a manifest equal to the one just applied.  Each event brings a
\* map of its own, so the tabs may come in another order.  One repetition
\* is followed; a third equal event is a second event for the one before it.
UpdatePaneUpdateAgain ==
    /\ pc = "update"
    /\ manifest # None
    /\ previous = None
    /\ \E order \in IterationOrders(DOMAIN manifest[1]) :
          /\ state' = update_panes(state, manifest[1], order)
          /\ scan' = order
          /\ latest' = Terminals(Entries(manifest[1], order))
    /\ before' = { state.panes[k] : k \in 1 .. Len(state.panes) }
    /\ previous' = Some(state)
    /\ query' = None
    /\ found' = <<>>
    /\ request' = None
    /\ response' = None
    /\ pipe_message' = None
    /\ writes' = <<>>
    /\ output' = <<>>
    /\ effects' = <<>>
    /\ UNCHANGED <<initialized, pc, manifest>>

\* NzmAgent::update with any other event
UpdateOther ==
    /\ pc = "host"
    /\ initialized
    /\ pc' = "update_other"
    /\ NoCall
    /\ UNCHANGED <<state, initialized, latest>>

\* State::get_pane_by_title, called on the State directly (lib.rs exports
\* State)
GetPaneByTitle ==
    /\ pc = "host"
    /\ \E title \in LookupTitles :
          /\ query' = Some(title)
          /\ found' = get_pane_by_title(state, title)
    /\ pc' = "get_pane_by_title"
    /\ before' = {}
    /\ manifest' = None
    /\ scan' = <<>>
    /\ previous' = None
    /\ request' = None
    /\ response' = None
    /\ pipe_message' = None
    /\ writes' = <<>>
    /\ output' = <<>>
    /\ effects' = <<>>
    /\ UNCHANGED <<state, initialized, latest>>

\* State::get_panes_by_prefix, called on the State directly
GetPanesByPrefix ==
    /\ pc = "host"
    /\ \E prefix \in LookupTitles :
          /\ query' = Some(prefix)
          /\ found' = get_panes_by_prefix(state, prefix)
    /\ pc' = "get_panes_by_prefix"
    /\ before' = {}
    /\ manifest' = None
    /\ scan' = <<>>
    /\ previous' = None
    /\ request' = None
    /\ response' = None
    /\ pipe_message' = None
    /\ writes' = <<>>
    /\ output' = <<>>
    /\ effects' = <<>>
    /\ UNCHANGED <<state, initialized, latest>>

\* a dispatch that empties the State it was given
DispatchCommand_draining ==
    /\ pc = "host"
    /\ \E req \in Requests :
          /\ request' = Some(req)
          /\ response' = Some(dispatch_command(req, state))
    /\ pc' = "dispatch_command"
    /\ state' = ClearState(state)
    /\ before' = {}
    /\ manifest' = None
    /\ scan' = <<>>
    /\ previous' = None
    /\ query' = None
    /\ found' = <<>>
    /\ pipe_message' = None
    /\ writes' = <<>>
    /\ output' = <<>>
    /\ effects' = <<>>
    /\ UNCHANGED <<initialized, latest>>

\* commands::dispatch_command, called on the State directly (lib.rs exports
\* both)
DispatchCommand ==
    /\ pc = "host"
    /\ \E req \in Requests :
          /\ request' = Some(req)
          /\ response' = Some(dispatch_command(req, state))
    /\ pc' = "dispatch_command"
    /\ before' = {}
    /\ manifest' = None
    /\ scan' = <<>>
    /\ previous' = None
    /\ query' = None
    /\ found' = <<>>
    /\ pipe_message' = None
    /\ writes' = <<>>
    /\ output' = <<>>
    /\ effects' = <<>>
    /\ UNCHANGED <<state, initialized, latest>>

\* NzmAgent::pipe
Pipe ==
    /\ pc = "host"
    /\ initialized
    /\ \E msg \in PipeMessages :
          /\ pipe_message' = Some(msg)
          /\ IF msg.payload = None
             THEN /\ request' = None
                  /\ response' = None
                  /\ writes' = <<>>
                  /\ output' = <<>>
                  /\ effects' = <<>>
             ELSE LET parsed == ParseRequest(msg.payload[1])
                  IN IF parsed.ok
                     THEN LET req == parsed.value
                              resp == [dispatch_command(req, state) EXCEPT !.id = req.id]
                          IN /\ request' = Some(req)
                             /\ response' = Some(resp)
                             /\ writes' = Execute(resp)
                             /\ output' = Reply(msg.source, resp)
                             /\ effects' = HostCalls(msg.source, resp)
                     ELSE /\ request' = None
                          /\ response' = Some(ParseFailure(parsed.err))
                          /\ writes' = <<>>
                          /\ output' = Reply(msg.source, ParseFailure(parsed.err))
                          /\ effects' = HostCalls(msg.source, ParseFailure(parsed.err))
    /\ pc' = "pipe"
    /\ before' = {}
    /\ manifest' = None
    /\ scan' = <<>>
    /\ previous' = None
    /\ query' = None
    /\ found' = <<>>
    /\ UNCHANGED <<state, initialized, latest>>

\* the callback returns to the host; its arguments and locals are dropped
Return ==
    /\ pc # "host"
    /\ pc' = "host"
    /\ NoCall
    /\ UNCHANGED <<state, initialized, latest>>

Next ==
    \/ Load
    \/ UpdatePaneUpdate
    \/ UpdatePaneUpdateAgain
    \/ UpdateOther
    \/ GetPaneByTitle
    \/ GetPanesByPrefix
    \/ DispatchCommand
    \/ Pipe
    \/ Return

Spec == Init /\ [][Next]_vars

\* ------------------------------------------------------------------------
\* Properties
\* ------------------------------------------------------------------------
\* the ids the lookups are asked for; 4 occurs nowhere
LookupIds == { 1, 2, 3, 4 }

\* the tab indices of a set, smallest first
RECURSIVE Ascending(_)
Ascending(T) ==
    IF T = {} THEN <<>>
    ELSE LET lo == CHOOSE x \in T : \A y \in T : x =< y
         IN <<lo>> \o Ascending(T \ {lo})

Range(seq) == { seq[k] : k \in 1 .. Len(seq) }

\* C1: after update_panes(S), panes() is exactly the non-plugin entries of S,
\* tabs in ascending tab-index order and each tab's entries in delivery
\* order, and holds no plugin-hosted entry.
C1_ListIsTabAscending ==
    pc = "update" =>
        /\ panes(state) = Terminals(Entries(manifest[1], Ascending(DOMAIN manifest[1])))
        /\ \A k \in 1 .. Len(panes(state)) : ~panes(state)[k].is_plugin

\* C2: after update_panes(S), get_pane(i) is present exactly when i is the id
\* of a non-plugin entry of S; the record it returns has id i, is not
\* plugin-hosted, and is the last non-plugin entry with id i that the scan
\* of S met.
C2_GetPaneIffTerminalId ==
    pc = "update" =>
        LET S == manifest[1]
            scanned == Terminals(Entries(S, scan))
            hits(i) == { k \in 1 .. Len(scanned) : scanned[k].id = i }
        IN \A i \in LookupIds :
              /\ get_pane(state, i) # None <=> hits(i) # {}
              /\ get_pane(state, i) # None =>
                    /\ get_pane(state, i)[1].id = i
                    /\ ~get_pane(state, i)[1].is_plugin
                    /\ \E k \in hits(i) :
                          /\ \A j \in hits(i) : j =< k
                          /\ get_pane(state, i)[1] = scanned[k]

\* a snapshot with two non-plugin entries of one id and different titles has
\* been applied, and the lookup gives the later one
C2_Witness ==
    /\ pc = "update"
    /\ Len(panes(state)) >= 2
    /\ panes(state)[1].id = 1
    /\ panes(state)[2].id = 1
    /\ panes(state)[1] # panes(state)[2]
    /\ get_pane(state, 1) = Some(panes(state)[2])
    /\ get_pane(state, 3) = None
    /\ \E t \in DOMAIN manifest[1] : \E k \in 1 .. Len(manifest[1][t]) :
          manifest[1][t][k].id = 3

\* C3: a snapshot replaces what was there.  After update_panes(S), whatever
\* the State held before, panes(), get_pane, get_pane_by_title and
\* get_panes_by_prefix are what the same scan of S gives on a new State; every
\* record listed or found by id is a non-plugin entry of S; a record of the
\* earlier State that is no entry of S is not listed, and its id is not
\* found unless S has a non-plugin entry of that id.
C3_SnapshotReplacesPriorState ==
    pc = "update" =>
        LET S == manifest[1]
            fresh == ScanTabs(DefaultState, S, scan)
            inS == Range(Terminals(Entries(S, scan)))
        IN /\ panes(state) = panes(fresh)
           /\ \A i \in LookupIds : get_pane(state, i) = get_pane(fresh, i)
           /\ \A t \in LookupTitles :
                 /\ get_pane_by_title(state, t) = get_pane_by_title(fresh, t)
                 /\ get_panes_by_prefix(state, t) = get_panes_by_prefix(fresh, t)
           /\ Range(panes(state)) \subseteq inS
           /\ \A i \in LookupIds : get_pane(state, i) # None => get_pane(state, i)[1] \in inS
           /\ \A old \in before :
                 old \notin inS =>
                    /\ old \notin Range(panes(state))
                    /\ (\A e \in inS : e.id # old.id) => get_pane(state, old.id) = None

\* the earlier State listed pane 2, the snapshot has panes but not pane 2,
\* and pane 2 is gone
C3_Witness ==
    /\ pc = "update"
    /\ \E old \in before : old.id = 2
    /\ panes(state) # <<>>
    /\ \A k \in 1 .. Len(panes(state)) : panes(state)[k].id # 2
    /\ get_pane(state, 2) = None

\* a JSON value that is an unsigned 32-bit integer
IsU32(v) == v.t = "num" /\ ~v.neg /\ v.hi = 0

\* params of the shape {pane_id: u32}
GoodPaneIdParams(p) == p.kind = "object" /\ IsU32(p.pane_id)

\* params of the shape {pane_id: u32, text: string, enter?: bool}
GoodSendKeysParams(p) ==
    /\ p.kind = "object"
    /\ IsU32(p.pane_id)
    /\ p.text.t = "str"
    /\ p.enter.t \in { "absent", "bool" }

\* dispatch_command has run on a request: directly, or inside pipe
Dispatched == pc \in { "dispatch_command", "pipe" } /\ request # None

\* C4: every response of dispatch_command has exactly one of data and error:
\* success means data present and error absent, failure means error present
\* and data absent.
C4_ExactlyOneOfDataAndError ==
    Dispatched =>
        LET r == response[1]
        IN /\ r.success => (r.data # None /\ r.error = None)
           /\ ~r.success => (r.error # None /\ r.data = None)

\* a send_interrupt for a pane that is not registered failed without data
C4_Witness ==
    /\ pc = "dispatch_command"
    /\ request[1].action = "send_interrupt"
    /\ panes(state) # <<>>
    /\ ~response[1].success
    /\ response[1].data = None
    /\ response[1].error = Some("pane not found: 3")

\* C5: whatever branch dispatch_command takes, the id of the response is the
\* id of the request.
C5_ResponseIdIsRequestId ==
    Dispatched => response[1].id = request[1].id

\* the invalid-params branch has answered request "123"
C5_Witness ==
    /\ pc = "dispatch_command"
    /\ request[1].id = "123"
    /\ response[1].id = "123"
    /\ response[1].error # None
    /\ starts_with(response[1].error[1], "invalid params: ")

\* C6: when send_keys or send_interrupt succeeds, the pane_id of the returned
\* descriptor is an id get_pane finds in the State of the call; when the
\* params are well formed and name a pane get_pane does not find, the
\* response is a failure with error "pane not found: <pane_id>" and no data.
C6_DescriptorOnlyForRegisteredPane ==
    (Dispatched /\ request[1].action \in { "send_keys", "send_interrupt" }) =>
        LET req == request[1]
            r == response[1]
            good == IF req.action = "send_keys" THEN GoodSendKeysParams(req.params)
                    ELSE GoodPaneIdParams(req.params)
        IN /\ r.success =>
                /\ r.data # None
                /\ r.data[1].action = req.action
                /\ get_pane(state, r.data[1].pane_id) # None
           /\ (good /\ get_pane(state, req.params.pane_id.lo) = None) =>
                r = [id |-> req.id, success |-> FALSE, data |-> None,
                     error |-> Some("pane not found: " \o ToString(req.params.pane_id.lo))]

\* send_keys for pane 2 was refused while pane 1 is registered
C6_Witness ==
    /\ pc = "dispatch_command"
    /\ request[1].action = "send_keys"
    /\ GoodSendKeysParams(request[1].params)
    /\ request[1].params.pane_id.lo = 2
    /\ get_pane(state, 1) # None
    /\ get_pane(state, 2) = None
    /\ response[1].error = Some("pane not found: 2")

\* C7: get_pane_info with params {pane_id: X} fails with an error that starts
\* "pane not found" and no data when get_pane does not find X, in any State;
\* when get_pane finds X it succeeds and data.pane carries the id, title,
\* is_focused and is_floating of the record get_pane(X) returns.
C7_GetPaneInfo ==
    (Dispatched /\ request[1].action = "get_pane_info"
       /\ GoodPaneIdParams(request[1].params)) =>
        LET X == request[1].params.pane_id.lo
            r == response[1]
        IN IF get_pane(state, X) = None
           THEN /\ ~r.success
                /\ r.data = None
                /\ r.error # None
                /\ starts_with(r.error[1], "pane not found")
           ELSE LET rec == get_pane(state, X)[1]
                IN /\ r.success
                   /\ r.error = None
                   /\ r.data = Some([pane |-> [id |-> rec.id, title |-> rec.title,
                                               is_focused |-> rec.is_focused,
                                               is_floating |-> rec.is_floating]])

\* get_pane_info for pane 1 was refused on the State no snapshot has reached
C7_Witness ==
    /\ pc = "dispatch_command"
    /\ ~initialized
    /\ state = DefaultState
    /\ request[1].action = "get_pane_info"
    /\ GoodPaneIdParams(request[1].params)
    /\ ~response[1].success
    /\ response[1].error = Some("pane not found: 1")

\* C8: list_panes succeeds whatever the params and the State; data.panes has
\* one element per record of panes(), in the same order, with that record's
\* id, title, is_focused and is_floating; it is empty when panes() is.
C8_ListPanes ==
    (Dispatched /\ request[1].action = "list_panes") =>
        LET r == response[1]
        IN /\ r.success
           /\ r.error = None
           /\ r.data # None
           /\ DOMAIN r.data[1] = { "panes" }
           /\ Len(r.data[1].panes) = Len(panes(state))
           /\ \A k \in 1 .. Len(panes(state)) :
                 r.data[1].panes[k] =
                    [id |-> panes(state)[k].id, title |-> panes(state)[k].title,
                     is_focused |-> panes(state)[k].is_focused,
                     is_floating |-> panes(state)[k].is_floating]
           /\ panes(state) = <<>> => r.data[1].panes = <<>>

\* list_panes with params that fit no schema has listed two records, the
\* focused one second
C8_Witness ==
    /\ pc = "dispatch_command"
    /\ request[1].action = "list_panes"
    /\ request[1].params.kind = "object"
    /\ request[1].params.wrong_field.t = "num"
    /\ Len(panes(state)) = 2
    /\ panes(state)[2].is_focused
    /\ response[1].success
    /\ Len(response[1].data[1].panes) = 2
    /\ response[1].data[1].panes[2].is_focused

\* C9: an action that is none of list_panes, get_pane_info, send_keys and
\* send_interrupt, compared exactly, gets success=false, no data and the
\* error "unknown action: <action>", whatever the params and the State.
C9_UnknownAction ==
    (Dispatched
       /\ request[1].action \notin
            { "list_panes", "get_pane_info", "send_keys", "send_interrupt" }) =>
        response[1] = [id |-> request[1].id, success |-> FALSE, data |-> None,
                       error |-> Some("unknown action: " \o request[1].action)]

\* "Send_Keys" with params send_keys would accept, for a registered pane,
\* was refused as unknown
C9_Witness ==
    /\ pc = "dispatch_command"
    /\ request[1].action = "Send_Keys"
    /\ GoodSendKeysParams(request[1].params)
    /\ get_pane(state, request[1].params.pane_id.lo) # None
    /\ response[1].error = Some("unknown action: Send_Keys")
    /\ response[1].data = None

\* C10: send_keys with well-formed params for a pane get_pane finds succeeds
\* with data {action: "send_keys", pane_id, text, enter} equal to the
\* request's pane_id, text and enter, enter being false when the request has
\* none; send_interrupt likewise succeeds with data {action:
\* "send_interrupt", pane_id}.
C10_EchoOfInputs ==
    /\ (Dispatched /\ request[1].action = "send_keys"
          /\ GoodSendKeysParams(request[1].params)
          /\ get_pane(state, request[1].params.pane_id.lo) # None) =>
            LET p == request[1].params
            IN response[1] =
                 [id |-> request[1].id, success |-> TRUE,
                  data |-> Some([action |-> "send_keys", pane_id |-> p.pane_id.lo,
                                 text |-> p.text.s,
                                 enter |-> IF p.enter.t = "absent" THEN FALSE
                                           ELSE p.enter.b]),
                  error |-> None]
    /\ (Dispatched /\ request[1].action = "send_interrupt"
          /\ GoodPaneIdParams(request[1].params)
          /\ get_pane(state, request[1].params.pane_id.lo) # None) =>
            response[1] =
                 [id |-> request[1].id, success |-> TRUE,
                  data |-> Some([action |-> "send_interrupt",
                                 pane_id |-> request[1].params.pane_id.lo]),
                  error |-> None]

\* {pane_id: 1, text: "hello", enter: true} came back as the descriptor
C10_Witness ==
    /\ pc = "dispatch_command"
    /\ request[1].action = "send_keys"
    /\ request[1].params.kind = "object"
    /\ request[1].params.pane_id = JNum(FALSE, 0, 1)
    /\ request[1].params.text = JStr("hello")
    /\ request[1].params.enter = JBool(TRUE)
    /\ response[1].success
    /\ response[1].data = Some([action |-> "send_keys", pane_id |-> 1,
                                text |-> "hello", enter |-> TRUE])

\* params serde decodes as PaneIdParam: the object, or the one-element array
FitsPaneIdParam(p) ==
    \/ GoodPaneIdParams(p)
    \/ p.kind = "array" /\ Len(p.elems) = 1 /\ IsU32(p.elems[1])

\* params serde decodes as SendKeysParams: the object, or the array of the
\* fields in declaration order, enter optional
FitsSendKeysParams(p) ==
    \/ GoodSendKeysParams(p)
    \/ /\ p.kind = "array"
       /\ Len(p.elems) \in { 2, 3 }
       /\ IsU32(p.elems[1])
       /\ p.elems[2].t = "str"
       /\ Len(p.elems) = 3 => p.elems[3].t = "bool"

\* the params of the request fit the schema of its action
FitsSchema(req) ==
    IF req.action = "send_keys" THEN FitsSendKeysParams(req.params)
    ELSE FitsPaneIdParam(req.params)

\* C11: for get_pane_info, send_keys and send_interrupt, params that do not
\* decode to the schema of the action give success=false, no data and an
\* error that starts "invalid params: ", whatever the State holds; an error
\* that starts "pane not found" is given only when the params decoded.
C11_InvalidParamsBeforeLookup ==
    (Dispatched
       /\ request[1].action \in { "get_pane_info", "send_keys", "send_interrupt" }) =>
        LET req == request[1]
            r == response[1]
        IN /\ ~FitsSchema(req) =>
                /\ ~r.success
                /\ r.data = None
                /\ r.error # None
                /\ starts_with(r.error[1], "invalid params: ")
           /\ (r.error # None /\ starts_with(r.error[1], "pane not found")) =>
                FitsSchema(req)

\* send_keys without text, for a pane id that is not registered, was refused
\* for its params and not for the pane
C11_Witness ==
    /\ pc = "dispatch_command"
    /\ request[1].action = "send_keys"
    /\ request[1].params.kind = "object"
    /\ request[1].params.pane_id = JNum(FALSE, 0, 2)
    /\ request[1].params.text = JAbsent
    /\ get_pane(state, 2) = None
    /\ get_pane(state, 1) # None
    /\ ~response[1].success
    /\ response[1].error # None
    /\ starts_with(response[1].error[1], "invalid params: ")

\* a payload that is no Request: not JSON, or id or action missing or not a
\* string
NotARequest(doc) ==
    \/ doc.kind = "garbage"
    \/ doc.id.t # "str"
    \/ doc.action.t # "str"

\* C12: when pipe gets a payload that does not decode as a Request (not
\* JSON, or a required field such as action missing even though id is
\* there), the response it builds has id "", success=false, no data and an
\* error that starts "Failed to parse request: "; no request is dispatched,
\* nothing is written to a pane and the State is as it was.
C12_ParseFailure ==
    [][(pc' = "pipe" /\ pipe_message'[1].payload # None
          /\ NotARequest(pipe_message'[1].payload[1])) =>
         /\ request' = None
         /\ response' # None
         /\ response'[1].id = ""
         /\ ~response'[1].success
         /\ response'[1].data = None
         /\ response'[1].error # None
         /\ starts_with(response'[1].error[1], "Failed to parse request: ")
         /\ Len(response'[1].error[1]) > Len("Failed to parse request: ")
         /\ writes' = <<>>
         /\ \A k \in 1 .. Len(output') :
               output'[k].json = [id |-> "", success |-> FALSE,
                                  error |-> response'[1].error[1]]
         /\ state' = state]_vars

\* the payload {"id":"123"} came on a CLI pipe while pane 1 is registered,
\* and the answer with id "" went out
C12_Witness ==
    /\ pc = "pipe"
    /\ pipe_message[1].source.kind = "Cli"
    /\ pipe_message[1].payload = Some(Document(JStr("123"), JAbsent, None))
    /\ get_pane(state, 1) # None
    /\ response[1].id = ""
    /\ response[1].error = Some("Failed to parse request: missing field 'action'")
    /\ Len(output) = 1

\* C13: every pipe message that carries a payload gets exactly one response
\* handed to the transport, the serialized response of the call, whatever
\* the source of the message; pipe never writes to a pane without sending a
\* response.
C13_ExactlyOneResponse ==
    (pc = "pipe" /\ pipe_message[1].payload # None) =>
        /\ response # None
        /\ Len(output) = 1
        /\ output[1].json = Serialize(response[1])
        /\ writes # <<>> => output # <<>>

\* C14: update_panes is idempotent.  When the same snapshot S, of one tab or
\* of several, is applied a second time, panes() lists the same records in
\* the same order and get_pane, get_pane_by_title and get_panes_by_prefix
\* answer as they did after the first time.
C14_ReplaceSnapshotIdempotent ==
    (pc = "update" /\ previous # None) =>
        /\ panes(state) = panes(previous[1])
        /\ \A i \in LookupIds : get_pane(state, i) = get_pane(previous[1], i)
        /\ \A t \in LookupTitles :
              /\ get_pane_by_title(state, t) = get_pane_by_title(previous[1], t)
              /\ get_panes_by_prefix(state, t) = get_panes_by_prefix(previous[1], t)

\* C15: when a snapshot has non-plugin entries that share an id, panes()
\* still holds every non-plugin entry, get_pane of that id gives the last of
\* them in scan order, and an earlier one stays listed, can be found by its
\* title, and is not what get_pane gives.
C15_DuplicateIdLastWins ==
    pc = "update" =>
        LET all == Terminals(Entries(manifest[1], scan))
            ps == panes(state)
        IN /\ Len(ps) = Len(all)
           /\ \A k \in 1 .. Len(all) : ps[k] = all[k]
           /\ \A j \in 1 .. Len(ps) :
                 LET same == { k \in 1 .. Len(ps) : ps[k].id = ps[j].id }
                     last == CHOOSE k \in same : \A l \in same : l =< k
                 IN j < last =>
                       /\ get_pane(state, ps[j].id) = Some(ps[last])
                       /\ state.pane_by_id[ps[j].id] # j
                       /\ ps[j] # ps[last] => get_pane(state, ps[j].id) # Some(ps[j])
                       /\ (\A l \in 1 .. Len(ps) : l < j => ps[l].title # ps[j].title) =>
                             get_pane_by_title(state, ps[j].title) = Some(ps[j])

\* two entries of id 1 are listed; the first is found by its title "a" and
\* the id gives the second
C15_Witness ==
    /\ pc = "update"
    /\ Len(panes(state)) = 3
    /\ panes(state)[1].id = 1
    /\ panes(state)[1].title = "a"
    /\ panes(state)[3].id = 1
    /\ panes(state)[3].title = "ab"
    /\ panes(state)[2].id = 2
    /\ get_pane(state, 1) = Some(panes(state)[3])
    /\ get_pane_by_title(state, "a") = Some(panes(state)[1])

\* the pairs <<title, prefix>> of LookupTitles where the title starts with
\* the prefix, written out
TitleHasPrefix ==
    { <<"", "">>, <<"a", "">>, <<"ab", "">>, <<"p", "">>, <<"b", "">>, <<"zz", "">>,
      <<"a", "a">>, <<"ab", "a">>, <<"ab", "ab">>, <<"p", "p">>, <<"b", "b">>,
      <<"zz", "zz">> }

\* C16: get_pane_by_title(title) returns the first record of panes() whose
\* title is title, or none when no record has it; get_panes_by_prefix(prefix)
\* returns the records of panes() whose title starts with prefix, all of
\* them and no other, in the order of panes(), which for "" is panes().
C16_TitleAndPrefixLookups ==
    /\ pc = "get_pane_by_title" =>
          LET ps == panes(state)
              hits == { k \in 1 .. Len(ps) : ps[k].title = query[1] }
          IN IF hits = {} THEN found = None
             ELSE \E k \in hits :
                     /\ \A j \in 1 .. (k - 1) : ps[j].title # query[1]
                     /\ found = Some(ps[k])
    /\ pc = "get_panes_by_prefix" =>
          /\ found = SelectSeq(panes(state),
                               LAMBDA p : <<p.title, query[1]>> \in TitleHasPrefix)
          /\ query[1] = "" => found = panes(state)

\* two different records are titled "ab"; the search for "ab" gave the one
\* listed first
C16_Witness ==
    /\ pc = "get_pane_by_title"
    /\ query = Some("ab")
    /\ Len(panes(state)) = 3
    /\ panes(state)[1].title = "a"
    /\ panes(state)[2].title = "ab"
    /\ panes(state)[3].title = "ab"
    /\ panes(state)[2] # panes(state)[3]
    /\ found = Some(panes(state)[2])

\* the pane a request names: the field pane_id of an object, the first
\* element of an array
TargetOf(req) ==
    IF req.params.kind = "array" THEN req.params.elems[1].lo
    ELSE req.params.pane_id.lo

\* C17: whatever snapshots and requests came before, a write to pane p
\* happens only inside pipe, for a send_keys or send_interrupt request that
\* names p and that dispatch_command answered with success, p being the id
\* of a non-plugin entry of the last snapshot delivered; a payload that does
\* not parse, a failed request, list_panes and get_pane_info write nothing,
\* so a pane that a later snapshot no longer has gets no write.
C17_WritesOnlyToLivePanes ==
    /\ pc # "pipe" => writes = <<>>
    /\ pc = "pipe" =>
          /\ \A k \in 1 .. Len(writes) :
                /\ request # None
                /\ request[1].action \in { "send_keys", "send_interrupt" }
                /\ FitsSchema(request[1])
                /\ TargetOf(request[1]) = writes[k].pane
                /\ response[1].success
                /\ \E j \in 1 .. Len(latest) :
                      latest[j].id = writes[k].pane /\ ~latest[j].is_plugin
          /\ (\/ request = None
              \/ response = None
              \/ ~response[1].success
              \/ request[1].action \in { "list_panes", "get_pane_info" }) =>
                writes = <<>>

\* pane 2, the one pane of the last snapshot, got "hello" and a newline on a
\* pipe that is no CLI pipe
C17_Witness ==
    /\ pc = "pipe"
    /\ pipe_message[1].source.kind = "Keybind"
    /\ request # None
    /\ request[1].action = "send_keys"
    /\ writes = <<Write("hello", 2), Write("\n", 2)>>
    /\ Len(latest) = 1
    /\ latest[1].id = 2
    /\ get_pane(state, 1) = None

\* C18: in every reachable State, each position in pane_by_id is an index of
\* panes, the record at the position kept for id i has id i, and the id of
\* every record of panes is a key of pane_by_id.
C18_MapConsistentWithSequence ==
    /\ \A i \in DOMAIN state.pane_by_id :
          /\ state.pane_by_id[i] \in 1 .. Len(state.panes)
          /\ state.panes[state.pane_by_id[i]].id = i
    /\ \A k \in 1 .. Len(state.panes) : state.panes[k].id \in DOMAIN state.pane_by_id

\* a second snapshot has been applied over a first; the State holds three
\* records under two ids, id 1 kept at position 3
C18_Witness ==
    /\ pc = "update"
    /\ before # {}
    /\ Len(state.panes) = 3
    /\ DOMAIN state.pane_by_id = { 1, 2 }
    /\ state.pane_by_id[1] = 3
    /\ state.pane_by_id[2] = 2

\* C19: dispatch_command leaves panes and pane_by_id as they were, for every
\* request; so does pipe, for every message; a step that changes the State
\* is the handling of a PaneUpdate event.
C19_OnlySnapshotsMutate ==
    [][/\ pc' \in { "dispatch_command", "pipe" } =>
            /\ state'.panes = state.panes
            /\ state'.pane_by_id = state.pane_by_id
       /\ state' # state => (pc' = "update" /\ manifest' # None)]_vars

\* pipe has written to pane 1 for a send_interrupt, and pane 1 and pane 2
\* are registered as before
C19_Witness ==
    /\ pc = "pipe"
    /\ request # None
    /\ request[1].action = "send_interrupt"
    /\ writes = <<Write(CtrlC, 1)>>
    /\ Len(state.panes) = 2
    /\ state.pane_by_id = (1 :> 1 @@ 2 :> 2)
    /\ latest = state.panes

\* C20: a request is evaluated on the State of one snapshot applied in
\* full: panes() is the whole list of non-plugin entries of the last
\* manifest delivered (none before the first), pane_by_id has just their
\* ids, each at the last position of that id, and never a State that is
\* half cleared or half rebuilt.
C20_RequestsSeeWholeSnapshot ==
    Dispatched =>
        /\ panes(state) = latest
        /\ DOMAIN state.pane_by_id = { latest[k].id : k \in 1 .. Len(latest) }
        /\ \A k \in 1 .. Len(latest) :
              /\ state.pane_by_id[latest[k].id] >= k
              /\ latest[state.pane_by_id[latest[k].id]].id = latest[k].id
        /\ latest = <<>> => state = DefaultState

\* list_panes, asked over a pipe, answered with all three records of the
\* last snapshot
C20_Witness ==
    /\ pc = "pipe"
    /\ request # None
    /\ request[1].action = "list_panes"
    /\ Len(latest) = 3
    /\ latest[1].id = 2
    /\ latest[3].id = 2
    /\ response[1].success
    /\ Len(response[1].data[1].panes) = 3

\* C21: plugin-hosted entries have no effect on the lookups.  After
\* update_panes(S), panes() and every lookup are what the same scan gives on
\* S with its plugin-hosted entries taken out; an id that a plugin-hosted
\* and a terminal entry share, in whatever order and tabs, gives the terminal
\* entry, and an id that only plugin-hosted entries carry gives none.  A
\* send_keys or send_interrupt request with well-formed params for an id
\* that no terminal entry of the last snapshot carries fails with "pane not
\* found: <id>" and writes nothing.
C21_PluginEntriesInvisible ==
    /\ pc = "update" =>
          LET S == manifest[1]
              all == Entries(S, scan)
              stripped == [t \in DOMAIN S |-> Terminals(S[t])]
              fresh == ScanTabs(DefaultState, stripped, scan)
              terminal(i) == { k \in 1 .. Len(all) : all[k].id = i /\ ~all[k].is_plugin }
              plugin(i) == { k \in 1 .. Len(all) : all[k].id = i /\ all[k].is_plugin }
          IN /\ panes(state) = panes(fresh)
             /\ \A t \in LookupTitles :
                   get_pane_by_title(state, t) = get_pane_by_title(fresh, t)
             /\ \A i \in LookupIds :
                   /\ get_pane(state, i) = get_pane(fresh, i)
                   /\ (plugin(i) # {} /\ terminal(i) # {}) =>
                         \E k \in terminal(i) : get_pane(state, i) = Some(all[k])
                   /\ (plugin(i) # {} /\ terminal(i) = {}) => get_pane(state, i) = None
    /\ (Dispatched /\ request[1].action \in { "send_keys", "send_interrupt" }
          /\ FitsSchema(request[1])
          /\ \A k \in 1 .. Len(latest) : latest[k].id # TargetOf(request[1])) =>
            /\ response[1] =
                  [id |-> request[1].id, success |-> FALSE, data |-> None,
                   error |-> Some("pane not found: " \o ToString(TargetOf(request[1])))]
            /\ writes = <<>>

\* the snapshot has terminal pane 1 in one tab and, scanned after it, the
\* plugin panes 1 and 3 in another; id 1 gives the terminal pane, id 3 none
C21_Witness ==
    /\ pc = "update"
    /\ Len(scan) = 2
    /\ manifest[1][scan[1]] = <<PaneInfo(1, "a", FALSE, TRUE, FALSE)>>
    /\ manifest[1][scan[2]] = <<PaneInfo(1, "a", TRUE, FALSE, FALSE),
                                PaneInfo(3, "p", TRUE, TRUE, FALSE)>>
    /\ get_pane(state, 1) = Some(PaneInfo(1, "a", FALSE, TRUE, FALSE))
    /\ get_pane(state, 3) = None
    /\ Len(panes(state)) = 1

\* the text a send_keys request carries
TextOf(req) ==
    IF req.params.kind = "array" THEN req.params.elems[2].s
    ELSE req.params.text.s

\* a send_keys request asks for enter
EnterOf(req) ==
    IF req.params.kind = "array"
    THEN Len(req.params.elems) = 3 /\ req.params.elems[3].b
    ELSE req.params.enter.t = "bool" /\ req.params.enter.b

\* C22: when pipe executes a send_keys that dispatch_command accepted, it
\* writes the text to the pane the request names and then, exactly when
\* enter is true, a newline to the same pane; for a send_interrupt it makes
\* one write, of "\x03", to that pane; the response goes to the transport
\* after the last write.
C22_WriteOrder ==
    (pc = "pipe" /\ request # None /\ response[1].success) =>
        LET req == request[1]
            p == TargetOf(req)
            written == SelectSeq(effects, LAMBDA c : c.call = "write_chars_to_pane_id")
        IN /\ req.action = "send_keys" =>
                writes = IF EnterOf(req)
                         THEN <<[chars |-> TextOf(req), pane |-> p],
                                [chars |-> "\n", pane |-> p]>>
                         ELSE <<[chars |-> TextOf(req), pane |-> p]>>
           /\ req.action = "send_interrupt" =>
                writes = <<[chars |-> "\\x03", pane |-> p]>>
           /\ Len(written) = Len(writes)
           /\ \A k \in 1 .. Len(writes) : written[k].args = writes[k]
           /\ \A j \in 1 .. Len(effects) : \A k \in 1 .. Len(effects) :
                 (effects[j].call = "cli_pipe_output"
                    /\ effects[k].call = "write_chars_to_pane_id") => k < j

\* "hello", then the newline, then the response: a send_keys with enter for
\* pane 2 on a CLI pipe
C22_Witness ==
    /\ pc = "pipe"
    /\ request # None
    /\ request[1].action = "send_keys"
    /\ Len(effects) = 3
    /\ effects[1] = [call |-> "write_chars_to_pane_id", args |-> Write("hello", 2)]
    /\ effects[2] = [call |-> "write_chars_to_pane_id", args |-> Write("\n", 2)]
    /\ effects[3].call = "cli_pipe_output"
    /\ effects[3].args.json.success

\* the JSON value a request gives for pane_id
PaneIdOf(req) ==
    IF req.params.kind = "array"
    THEN IF req.params.elems = <<>> THEN JAbsent ELSE req.params.elems[1]
    ELSE req.params.pane_id

\* C23: pane_id is taken only as an unsigned 32-bit integer.  For
\* get_pane_info, send_keys and send_interrupt a pane_id below 0 or above
\* 2^32 - 1 gives success=false, no data and an error that starts "invalid
\* params: ", also when its value modulo 2^32 is the id of a registered
\* pane; in a successful response the pane id in data is the number the
\* request gave, and so is the pane pipe writes to.
C23_PaneIdIsU32 ==
    (Dispatched
       /\ request[1].action \in { "get_pane_info", "send_keys", "send_interrupt" }) =>
        LET req == request[1]
            r == response[1]
            id == PaneIdOf(req)
        IN /\ (id.t = "num" /\ (id.neg \/ id.hi > 0)) =>
                /\ ~r.success
                /\ r.data = None
                /\ r.error # None
                /\ starts_with(r.error[1], "invalid params: ")
                /\ writes = <<>>
           /\ r.success =>
                /\ id.t = "num"
                /\ ~id.neg
                /\ id.hi = 0
                /\ IF req.action = "get_pane_info"
                   THEN r.data[1].pane.id = id.lo
                   ELSE r.data[1].pane_id = id.lo
                /\ \A k \in 1 .. Len(writes) : writes[k].pane = id.lo

\* send_interrupt for pane 2^32 + 1 was refused for its params while pane 1
\* is registered
C23_Witness ==
    /\ pc = "pipe"
    /\ request # None
    /\ request[1].action = "send_interrupt"
    /\ request[1].params.kind = "object"
    /\ request[1].params.pane_id = JNum(FALSE, 1, 1)
    /\ get_pane(state, 1) # None
    /\ ~response[1].success
    /\ response[1].error # None
    /\ starts_with(response[1].error[1], "invalid params: invalid value")
    /\ writes = <<>>

====
